---- MODULE Spec2Model ----
(***************************************************************************)
(* Model of the flexbuf byte buffer (buffer.go): a slice header            *)
(* (backing block, length), a cursor and an ownership flag per Buffer, a   *)
(* heap of backing arrays and the package level sync.Pool.                 *)
(*                                                                         *)
(* A Go slice is modelled as a reference to a heap block plus a length;    *)
(* the capacity is the length of the block (every slice in the package     *)
(* starts at index 0 of its array).  Offsets are 0-based as in the source, *)
(* TLA+ sequences are 1-based: the byte at offset i is arr[i + 1].         *)
(***************************************************************************)
EXTENDS Integers, Sequences, FiniteSets, TLC

\* ------------------------------------------------------------------ bounds
\* Stand-in for bytes.MinRead (512 in the Go library), scaled down.
MinRead == 2
\* Largest capacity an operation may ask the allocator for.
MaxCap == 4
\* Largest cursor / offset / size argument explored.
MaxOff == 4
\* Longest byte sequence written, or destination read into.
MaxData == 2
\* Longest byte sequence a ReadFrom source holds.
MaxSrc == 2
\* Largest capacity of the storage handed to With.
MaxInit == 2
\* Number of items the pool keeps (sync.Pool may drop any item).
MaxPool == 2
\* Number of Buffer objects of the whole model.
NBufs == 2
\* Number of calls made in a row on a Buffer that starts empty.
MaxSeq == 3

Byte == {0, 1}
Bufs == 1..NBufs
\* Heap blocks: one per buffer, the pool items, and one in flight.
Blocks == 1..(NBufs + MaxPool + 1)
\* The nil / zero capacity slice refers to no block.
NoBlock == 0

SeqsUpTo(S, n) == UNION {[1..k -> S] : k \in 0..n}

Min(a, b) == IF a < b THEN a ELSE b
Max(a, b) == IF a > b THEN a ELSE b

Zeros(n) == [i \in 1..n |-> 0]

\* s[lo:hi] of Go, 0-based, half open.
Slice(s, lo, hi) == [i \in 1..(hi - lo) |-> s[lo + i]]

\* The error values of the package and of the io / os packages it uses.
ErrNil == "nil"
EOF == "io.EOF"
ErrOutOfBounds == "ErrOutOfBounds"
ErrInvalid == "os.ErrInvalid"
ErrSource == "source error"
Panic == "panic"

SeekStart == 0
SeekCurrent == 1
SeekEnd == 2

\* ------------------------------------------------- pure buffer operations
\* A view v is the Buffer as the methods see it: the cursor b.off, len(b.buf)
\* and the whole backing array (cap(b.buf) = Len(v.arr)); v.fresh tells that
\* the method replaced the backing array by a newly allocated one.

BufLen(v) == v.len
BufCap(v) == Len(v.arr)
BufOffset(v) == v.off
\* The content b.buf[0:len].
Content(v) == Slice(v.arr, 0, v.len)

\* copy(dst[at:], src) on the array: returns the array after copying and n.
\* room is len(dst[at:]).
CopyN(room, src) == Min(room, Len(src))
CopyInto(arr, at, room, src) ==
  [i \in 1..Len(arr) |->
     IF i > at /\ i <= at + CopyN(room, src) THEN src[i - at] ELSE arr[i]]

\* zeroOutSlice(arr[lo:hi]).
zeroOutSlice(arr, lo, hi) ==
  [i \in 1..Len(arr) |-> IF i > lo /\ i <= hi THEN 0 ELSE arr[i]]

\* make([]byte, n): length and capacity n, all zero.
makeSlice(n) == Zeros(n)

\* tryGrowByReslice: the view after the call and whether it succeeded.
\* A faulty tryGrowByReslice that never reslices into the spare capacity:
\* C32 must notice.
tryGrowByReslice_neverReslice(v, n) ==
  IF n <= v.len - v.off
    THEN [ok |-> TRUE, v |-> v]
    ELSE [ok |-> FALSE, v |-> v]

tryGrowByReslice(v, n) ==
  IF n <= v.len - v.off
    THEN [ok |-> TRUE, v |-> v]
    ELSE IF n <= BufCap(v) - v.off
      THEN [ok |-> TRUE, v |-> [v EXCEPT !.len = v.off + n]]
      ELSE [ok |-> FALSE, v |-> v]

\* A faulty growAlloc that forgets copy(tmp, b.buf): C2 must notice.
growAlloc_noCopy(v, n) ==
  LET c == BufCap(v)
      rc == c - v.off
      ex == c + n - rc
  IN  [v EXCEPT !.arr = makeSlice(ex), !.len = ex, !.fresh = TRUE]

growAlloc(v, n) ==
  LET c == BufCap(v)
      rc == c - v.off
      ex == c + n - rc
      tmp == makeSlice(ex)
  IN  [v EXCEPT !.arr = CopyInto(tmp, 0, Len(tmp), Content(v)),
                !.len = ex,
                !.fresh = TRUE]

grow(v, n) ==
  LET r == tryGrowByReslice(v, n)
  IN  IF r.ok THEN r.v ELSE growAlloc(v, n)

\* write: the view after the call and the count returned.
write(v, p) ==
  LET g == grow(v, Len(p))
      n == CopyN(g.len - g.off, p)
  IN  [v |-> [g EXCEPT !.arr = CopyInto(g.arr, g.off, g.len - g.off, p),
                       !.off = g.off + n],
       n |-> n]

\* Results of the public methods: the view after the call, the count or
\* position returned (n), the error (err) and the destination (out).
Res(v, n, err, out) == [v |-> v, n |-> n, err |-> err, out |-> out]

doWrite(v, p) ==
  LET w == write(v, p) IN Res(w.v, w.n, ErrNil, <<>>)

\* A faulty WriteAt that does not restore b.off: C4 must notice.
doWriteAt_noRestore(v, p, off) ==
  LET w == write([v EXCEPT !.off = off], p)
  IN  Res(w.v, w.n, ErrNil, <<>>)

doWriteAt(v, p, off) ==
  LET prev == v.off
      w == write([v EXCEPT !.off = off], p)
  IN  Res([w.v EXCEPT !.off = prev], w.n, ErrNil, <<>>)

\* A faulty Read that copies from b.buf[0:] instead of b.buf[b.off:]: C5 must
\* notice.
doRead_fromStart(v, dst) ==
  IF Len(dst) > 0 /\ v.off >= v.len
    THEN Res(v, 0, EOF, dst)
    ELSE LET src == Slice(v.arr, 0, v.len)
             n == CopyN(Len(dst), src)
             v1 == [v EXCEPT !.off = v.off + n]
         IN  Res(v1, n, IF v1.len - v1.off > 0 THEN ErrNil ELSE EOF,
                 CopyInto(dst, 0, Len(dst), src))

\* A faulty Read without the early return at the end of the content: C6 must
\* notice.
doRead_noEOFGuard(v, dst) ==
  IF v.off > v.len
    THEN Res(v, 0, Panic, dst)
    ELSE LET src == Slice(v.arr, v.off, v.len)
             n == CopyN(Len(dst), src)
             v1 == [v EXCEPT !.off = v.off + n]
         IN  Res(v1, n, IF v1.len - v1.off > 0 THEN ErrNil ELSE EOF,
                 CopyInto(dst, 0, Len(dst), src))

\* A faulty Read that reports io.EOF only when it copied nothing: C18 must
\* notice.
doRead_nilWhenCopied(v, dst) ==
  IF Len(dst) > 0 /\ v.off >= v.len
    THEN Res(v, 0, EOF, dst)
    ELSE IF v.off > v.len
      THEN Res(v, 0, Panic, dst)
      ELSE LET src == Slice(v.arr, v.off, v.len)
               n == CopyN(Len(dst), src)
               v1 == [v EXCEPT !.off = v.off + n]
           IN  Res(v1, n, IF v1.len - v1.off > 0 \/ n > 0 THEN ErrNil ELSE EOF,
                   CopyInto(dst, 0, Len(dst), src))

\* Read into a destination dst (its previous bytes matter where the copy
\* does not reach).  Slicing b.buf[b.off:] with b.off > len(b.buf) panics.
doRead(v, dst) ==
  IF Len(dst) > 0 /\ v.off >= v.len
    THEN Res(v, 0, EOF, dst)
    ELSE IF v.off > v.len
      THEN Res(v, 0, Panic, dst)
      ELSE LET src == Slice(v.arr, v.off, v.len)
               n == CopyN(Len(dst), src)
               out == CopyInto(dst, 0, Len(dst), src)
               v1 == [v EXCEPT !.off = v.off + n]
           IN  IF v1.len - v1.off > 0
                 THEN Res(v1, n, ErrNil, out)
                 ELSE Res(v1, n, EOF, out)

\* A faulty ReadAt that accepts the offset len(b.buf): C14 must notice.
doReadAt_offByOne(v, dst, off) ==
  IF off > v.len
    THEN Res(v, 0, ErrOutOfBounds, dst)
    ELSE LET prev == v.off
             r == doRead([v EXCEPT !.off = off], dst)
         IN  Res([r.v EXCEPT !.off = prev], r.n, r.err, r.out)

\* A faulty ReadAt without the deferred restore of b.off: C15 must notice.
doReadAt_noRestore(v, dst, off) ==
  IF off >= v.len
    THEN Res(v, 0, ErrOutOfBounds, dst)
    ELSE doRead([v EXCEPT !.off = off], dst)

\* A faulty ReadAt that swallows the io.EOF of a read that delivered bytes:
\* C16 must notice.
doReadAt_dropEOF(v, dst, off) ==
  IF off >= v.len
    THEN Res(v, 0, ErrOutOfBounds, dst)
    ELSE LET prev == v.off
             r == doRead([v EXCEPT !.off = off], dst)
         IN  Res([r.v EXCEPT !.off = prev], r.n,
                 IF r.err = EOF /\ r.n > 0 THEN ErrNil ELSE r.err, r.out)

doReadAt(v, dst, off) ==
  IF off >= v.len
    THEN Res(v, 0, ErrOutOfBounds, dst)
    ELSE LET prev == v.off
             r == doRead([v EXCEPT !.off = off], dst)
         IN  Res([r.v EXCEPT !.off = prev], r.n, r.err, r.out)

\* A faulty Seek that takes SeekCurrent relative to the end: C1 must notice.
doSeek_currentFromEnd(v, offset, whence) ==
  LET off == CASE whence = SeekStart -> offset
               [] whence = SeekCurrent -> v.len + offset
               [] whence = SeekEnd -> v.len + offset
               [] OTHER -> 0
  IN  IF off < 0
        THEN Res(v, 0, ErrInvalid, <<>>)
        ELSE Res([v EXCEPT !.off = off], off, ErrNil, <<>>)

\* A faulty Seek that takes SeekEnd relative to the capacity: C11 must notice.
doSeek_endFromCap(v, offset, whence) ==
  LET off == CASE whence = SeekStart -> offset
               [] whence = SeekCurrent -> v.off + offset
               [] whence = SeekEnd -> BufCap(v) + offset
               [] OTHER -> 0
  IN  IF off < 0
        THEN Res(v, 0, ErrInvalid, <<>>)
        ELSE Res([v EXCEPT !.off = off], off, ErrNil, <<>>)

\* A faulty Seek that stores the candidate before it checks its sign: C12 must
\* notice.
doSeek_storeFirst(v, offset, whence) ==
  LET off == CASE whence = SeekStart -> offset
               [] whence = SeekCurrent -> v.off + offset
               [] whence = SeekEnd -> v.len + offset
               [] OTHER -> 0
  IN  IF off < 0
        THEN Res([v EXCEPT !.off = 0], 0, ErrInvalid, <<>>)
        ELSE Res([v EXCEPT !.off = off], off, ErrNil, <<>>)

\* A faulty Seek that extends the content up to the new cursor: C13 must
\* notice.
doSeek_extend(v, offset, whence) ==
  LET off == CASE whence = SeekStart -> offset
               [] whence = SeekCurrent -> v.off + offset
               [] whence = SeekEnd -> v.len + offset
               [] OTHER -> 0
  IN  IF off < 0
        THEN Res(v, 0, ErrInvalid, <<>>)
        ELSE IF off > v.len
          THEN Res(grow([v EXCEPT !.off = off], 0), off, ErrNil, <<>>)
          ELSE Res([v EXCEPT !.off = off], off, ErrNil, <<>>)

\* A faulty Seek that rejects a whence it does not know: C39 must notice.
doSeek_rejectWhence(v, offset, whence) ==
  LET off == CASE whence = SeekStart -> offset
               [] whence = SeekCurrent -> v.off + offset
               [] whence = SeekEnd -> v.len + offset
               [] OTHER -> 0 - 1
  IN  IF off < 0
        THEN Res(v, 0, ErrInvalid, <<>>)
        ELSE Res([v EXCEPT !.off = off], off, ErrNil, <<>>)

doSeek(v, offset, whence) ==
  LET off == CASE whence = SeekStart -> offset
               [] whence = SeekCurrent -> v.off + offset
               [] whence = SeekEnd -> v.len + offset
               [] OTHER -> 0
  IN  IF off < 0
        THEN Res(v, 0, ErrInvalid, <<>>)
        ELSE Res([v EXCEPT !.off = off], off, ErrNil, <<>>)

\* A faulty Truncate that pulls the cursor back into the content: C8 must
\* notice.
doTruncate_clampCursor(v, size) ==
  IF size < 0
    THEN Res(v, 0, ErrInvalid, <<>>)
    ELSE IF size > v.len
      THEN Res(grow(v, size - v.len), 0, ErrNil, <<>>)
      ELSE Res([v EXCEPT !.arr = zeroOutSlice(v.arr, size, v.len),
                         !.len = size,
                         !.off = Min(v.off, size)], 0, ErrNil, <<>>)

\* A faulty Truncate that zeroes the tail but keeps the length: C9 must notice.
doTruncate_noReslice(v, size) ==
  IF size < 0
    THEN Res(v, 0, ErrInvalid, <<>>)
    ELSE IF size > v.len
      THEN Res(grow(v, size - v.len), 0, ErrNil, <<>>)
      ELSE Res([v EXCEPT !.arr = zeroOutSlice(v.arr, size, v.len)], 0, ErrNil, <<>>)

\* A faulty Truncate that takes a negative size for zero: C21 must notice.
doTruncate_clampSize(v, size) ==
  LET sz == Max(size, 0)
  IN  IF sz > v.len
        THEN Res(grow(v, sz - v.len), 0, ErrNil, <<>>)
        ELSE Res([v EXCEPT !.arr = zeroOutSlice(v.arr, sz, v.len),
                           !.len = sz],
                 0, IF size < 0 THEN ErrInvalid ELSE ErrNil, <<>>)

\* A faulty Truncate that also takes the growing branch when size equals the
\* length: C22 must notice.
doTruncate_growOnEqual(v, size) ==
  IF size < 0
    THEN Res(v, 0, ErrInvalid, <<>>)
    ELSE IF size >= v.len
      THEN Res(grow(v, size - v.len), 0, ErrNil, <<>>)
      ELSE Res([v EXCEPT !.arr = zeroOutSlice(v.arr, size, v.len),
                         !.len = size], 0, ErrNil, <<>>)

\* A faulty Truncate that gives the spare capacity back when it shrinks: C38
\* must notice.
doTruncate_dropSpare(v, size) ==
  IF size < 0
    THEN Res(v, 0, ErrInvalid, <<>>)
    ELSE IF size > v.len
      THEN Res(grow(v, size - v.len), 0, ErrNil, <<>>)
      ELSE Res([v EXCEPT !.arr = Slice(v.arr, 0, size),
                         !.len = size,
                         !.fresh = TRUE], 0, ErrNil, <<>>)

\* A faulty Truncate that reslices without zeroing the discarded bytes: C33
\* must notice.
doTruncate_noZero(v, size) ==
  IF size < 0
    THEN Res(v, 0, ErrInvalid, <<>>)
    ELSE IF size > v.len
      THEN Res(grow(v, size - v.len), 0, ErrNil, <<>>)
      ELSE Res([v EXCEPT !.len = size], 0, ErrNil, <<>>)

doTruncate(v, size) ==
  IF size < 0
    THEN Res(v, 0, ErrInvalid, <<>>)
    ELSE IF size > v.len
      THEN Res(grow(v, size - v.len), 0, ErrNil, <<>>)
      ELSE Res([v EXCEPT !.arr = zeroOutSlice(v.arr, size, v.len),
                         !.len = size], 0, ErrNil, <<>>)

\* ------------------------------------------------------------------ state
VARIABLES
  bufs,   \* the Buffer objects: lifecycle, external, off, buf (block, length)
  heap,   \* the backing arrays, by block
  pool,   \* the items of the package's sync.Pool (slices)
  rf,     \* the ReadFrom call in progress, if any
  last,   \* the last completed call: arguments, results, the buffer before it
  chain   \* the calls completed just before, while they match a scenario

vars == <<bufs, heap, pool, rf, last, chain>>

NoBuf == [st |-> "none", external |-> FALSE, off |-> 0, blk |-> NoBlock, len |-> 0]
NoView == [off |-> 0, len |-> 0, arr |-> <<>>, fresh |-> FALSE]
NoRF == [active |-> FALSE, b |-> 0, all |-> <<>>, src |-> <<>>, fail |-> FALSE,
         total |-> 0, iters |-> 0, pre |-> NoView]
NoCall == [op |-> "none", b |-> 0, p |-> <<>>, arg |-> 0, whence |-> 0]

\* The machine state the operations transform.
Machine == [bufs |-> bufs, heap |-> heap, pool |-> pool]

ArrOf(m, k) == IF k = NoBlock THEN <<>> ELSE m.heap[k]

Snapshot(v) == [off |-> v.off, len |-> v.len, arr |-> v.arr, fresh |-> FALSE]

MView(m, b) ==
  [off |-> m.bufs[b].off, len |-> m.bufs[b].len,
   arr |-> ArrOf(m, m.bufs[b].blk), fresh |-> FALSE]

\* Blocks some buffer or pool item refers to; the others are garbage.
MRefs(m) ==
  ({m.bufs[b].blk : b \in Bufs} \cup {m.pool[i].blk : i \in DOMAIN m.pool})
    \ {NoBlock}

MFree(m) ==
  CHOOSE k \in Blocks \ MRefs(m) : \A j \in Blocks \ MRefs(m) : k <= j

\* The allocator: a new block holding arr (no block for a zero capacity).
MAlloc(m, arr) ==
  IF Len(arr) = 0
    THEN [m |-> m, blk |-> NoBlock]
    ELSE LET k == MFree(m)
         IN  [m |-> [m EXCEPT !.heap[k] = arr], blk |-> k]

\* Write the view v back as Buffer b: a fresh array goes to a new block,
\* anything else is written through to the block b.buf refers to.
MStore(m, b, v) ==
  IF v.fresh
    THEN LET a == MAlloc([m EXCEPT !.bufs[b].blk = NoBlock], v.arr)
         IN  [a.m EXCEPT !.bufs[b].blk = a.blk,
                         !.bufs[b].off = v.off,
                         !.bufs[b].len = v.len]
    ELSE LET k == m.bufs[b].blk
             h == IF k = NoBlock THEN m.heap ELSE [m.heap EXCEPT ![k] = v.arr]
         IN  [m EXCEPT !.heap = h, !.bufs[b].off = v.off, !.bufs[b].len = v.len]

\* The garbage collector: unreferenced blocks are gone.  Block numbers are
\* addresses nothing in the program looks at, so the live blocks are numbered
\* in the order the buffers and the pool items refer to them.
RefList(m) ==
  [i \in 1..(NBufs + Len(m.pool)) |->
     IF i <= NBufs THEN m.bufs[i].blk ELSE m.pool[i - NBufs].blk]
FirstRef(m, k) == CHOOSE i \in DOMAIN RefList(m) :
                    RefList(m)[i] = k /\ \A j \in 1..(i - 1) : RefList(m)[j] # k
Rank(m, k) ==
  IF k = NoBlock THEN NoBlock
  ELSE Cardinality({j \in MRefs(m) : FirstRef(m, j) <= FirstRef(m, k)})
MCollect(m) ==
  [bufs |-> [b \in Bufs |-> [m.bufs[b] EXCEPT !.blk = Rank(m, @)]],
   pool |-> [i \in DOMAIN m.pool |-> [m.pool[i] EXCEPT !.blk = Rank(m, @)]],
   heap |-> [r \in Blocks |->
              IF r <= Cardinality(MRefs(m))
                THEN m.heap[CHOOSE k \in MRefs(m) : Rank(m, k) = r]
                ELSE <<>>]]

\* sync.Pool.Get: any item of the pool, or a new one from pool.New.
\* c = 0 chooses New, c = i > 0 the i-th item.
PoolChoices(m) == 0..Len(m.pool)
RemoveAt(s, i) == [j \in 1..(Len(s) - 1) |-> IF j < i THEN s[j] ELSE s[j + 1]]
poolGet(m, c) ==
  IF c = 0
    THEN LET a == MAlloc(m, makeSlice(MinRead))
         IN  [m |-> a.m, s |-> [blk |-> a.blk, len |-> MinRead]]
    ELSE [m |-> [m EXCEPT !.pool = RemoveAt(m.pool, c)], s |-> m.pool[c]]

\* sync.Pool.Put: the pool keeps the item, or drops it when it is full.
poolPut(m, s) ==
  IF Len(m.pool) < MaxPool
    THEN [m EXCEPT !.pool = Append(m.pool, s)]
    ELSE m

Install(m) ==
  \E mm \in {m} : \E c \in {MCollect(mm)} :
    /\ bufs' = c.bufs
    /\ heap' = c.heap
    /\ pool' = c.pool

\* ------------------------------------------------------------ scenarios
\* chain keeps the calls made back to back while they form the beginning of
\* one of the call sequences the properties talk about:
\*   Write(p); Seek(-len(p), Current); Read(dst) with len(dst) = len(p)
\*   Truncate(0); Write(x)
\*   var b Buffer; then up to MaxSeq of Write, WriteAt, Seek and Truncate
IsScenarioPrefix(c) ==
  \/ c = <<>>
  \/ /\ c[1].op = "Write"
     /\ Len(c) <= 3
     /\ (Len(c) >= 2 => (c[2].op = "Seek" /\ c[2].whence = SeekCurrent
                           /\ c[2].arg = 0 - Len(c[1].p)))
     /\ (Len(c) >= 3 => (c[3].op = "Read" /\ Len(c[3].p) = Len(c[1].p)))
  \/ /\ c[1].op = "Truncate"
     /\ c[1].arg = 0
     /\ Len(c) <= 2
     /\ (Len(c) >= 2 => c[2].op = "Write")
  \/ /\ c[1].op = "ZeroValue"
     /\ Len(c) <= MaxSeq + 1
     /\ \A i \in 2..Len(c) : c[i].op \in {"Write", "WriteAt", "Seek", "Truncate"}

RECURSIVE LongestScenarioSuffix(_)
LongestScenarioSuffix(c) ==
  IF IsScenarioPrefix(c) THEN c ELSE LongestScenarioSuffix(Tail(c))

\* A behaviour is one call on a buffer in any state, or one of the scenarios.
Admit(call) ==
  \/ last.call.op = "none"
  \/ chain # <<>> /\ IsScenarioPrefix(Append(chain, call))

Record(call, pre, res) ==
  /\ last' = [call |-> call, pre |-> Snapshot(pre), n |-> res.n,
              err |-> res.err, out |-> res.out]
  /\ chain' = LongestScenarioSuffix(Append(chain, call))

Idle == ~rf.active
IsOpen(b) == bufs[b].st = "open"

\* ---------------------------------------------------------------- inputs
Data == SeqsUpTo(Byte, MaxData)
\* Destinations of Read and ReadAt, filled with a byte before the call.
Filler == CHOOSE x \in Byte : x # 0
Dests == {[i \in 1..k |-> Filler] : k \in 0..MaxData}
Offsets == 0..MaxOff
SeekOffsets == (0 - MaxOff)..MaxOff
Whences == {SeekStart, SeekCurrent, SeekEnd}
Sizes == (0 - 1)..MaxOff
Sources == SeqsUpTo(Byte, MaxSrc)
\* Storage handed to With: a backing array and the length of the slice.
Storages == {s \in [arr : SeqsUpTo(Byte, MaxCap), len : 0..MaxCap] :
               s.len <= Len(s.arr)}
\* Constructor options: Offset(off) and Append.
OffsetOpt(off) == [kind |-> "Offset", off |-> off]
AppendOpt == [kind |-> "Append", off |-> 0]
OptLists == {<<>>, <<AppendOpt>>} \cup {<<OffsetOpt(o)>> : o \in (0 - 1)..(MaxCap + 1)}

Call(op, b, p, arg, whence) ==
  [op |-> op, b |-> b, p |-> p, arg |-> arg, whence |-> whence]

\* ------------------------------------------------------------ construction
\* The option functions applied to the Buffer under construction.
\* A faulty Offset option that rejects the offset len(b.buf): C28 must notice.
applyOpt_offByOne(v, opt) ==
  IF opt.kind = "Offset"
    THEN IF opt.off < 0 \/ opt.off >= v.len
           THEN [v |-> v, err |-> ErrOutOfBounds]
           ELSE [v |-> [v EXCEPT !.off = opt.off], err |-> ErrNil]
    ELSE [v |-> [v EXCEPT !.off = v.len], err |-> ErrNil]

applyOpt(v, opt) ==
  IF opt.kind = "Offset"
    THEN IF opt.off < 0 \/ opt.off > v.len
           THEN [v |-> v, err |-> ErrOutOfBounds]
           ELSE [v |-> [v EXCEPT !.off = opt.off], err |-> ErrNil]
    ELSE [v |-> [v EXCEPT !.off = v.len], err |-> ErrNil]

RECURSIVE applyOpts(_, _)
applyOpts(v, opts) ==
  IF opts = <<>>
    THEN [v |-> v, err |-> ErrNil]
    ELSE LET r == applyOpt(v, Head(opts))
         IN  IF r.err # ErrNil THEN r ELSE applyOpts(r.v, Tail(opts))

CanConstruct(b) == Idle /\ bufs[b].st \in {"none", "closed"}

\* &Buffer{}: the zero value.
ZeroValue(b) ==
  /\ CanConstruct(b)
  /\ Install([Machine EXCEPT !.bufs[b] = [NoBuf EXCEPT !.st = "open"]])
  /\ Record(Call("ZeroValue", b, <<>>, 0, 0), NoView, Res(NoView, 0, ErrNil, <<>>))
  /\ UNCHANGED rf

\* The Buffer With builds over the slice (blk, len): nil on an option error.
withSlice(m, b, blk, len, opts, external) ==
  LET v0 == [off |-> 0, len |-> len, arr |-> ArrOf(m, blk), fresh |-> FALSE]
      r == applyOpts(v0, opts)
  IN  IF r.err # ErrNil
        THEN [m |-> [m EXCEPT !.bufs[b] = NoBuf], err |-> r.err]
        ELSE [m |-> [m EXCEPT !.bufs[b] =
                       [st |-> "open", external |-> external, off |-> r.v.off,
                        blk |-> blk, len |-> len]],
              err |-> ErrNil]

With(b, data, opts) ==
  /\ CanConstruct(b)
  /\ LET a == MAlloc([Machine EXCEPT !.bufs[b] = NoBuf], data.arr)
         w == withSlice(a.m, b, a.blk, data.len, opts, TRUE)
     IN  /\ Install(w.m)
         /\ Record(Call("With", b, data.arr, data.len, 0), NoView,
                   Res(NoView, 0, w.err, opts))
  /\ UNCHANGED rf

New(b, opts) ==
  /\ CanConstruct(b)
  /\ \E c \in PoolChoices(Machine) :
       LET g == poolGet([Machine EXCEPT !.bufs[b] = NoBuf], c)
           w == withSlice(g.m, b, g.s.blk, 0, opts, FALSE)
       IN  /\ Install(w.m)
           /\ Record(Call("New", b, <<>>, 0, 0), NoView,
                     Res(NoView, 0, w.err, opts))
  /\ UNCHANGED rf

\* ------------------------------------------------------------- operations
\* A method that runs to completion on Buffer b, with the result res computed
\* from the view; an allocation beyond MaxCap is outside the explored space.
Perform(b, call, res) ==
  \E r \in {res} :
    /\ BufCap(r.v) <= MaxCap
    /\ Install(MStore(Machine, b, r.v))
    /\ Record(call, MView(Machine, b), r)
    /\ UNCHANGED rf

Apply(b, call, res) ==
  /\ Admit(call)
  /\ Perform(b, call, res)

Write(b, p) ==
  /\ Idle /\ IsOpen(b)
  /\ Apply(b, Call("Write", b, p, 0, 0), doWrite(MView(Machine, b), p))

WriteAt(b, p, off) ==
  /\ Idle /\ IsOpen(b)
  /\ Apply(b, Call("WriteAt", b, p, off, 0), doWriteAt(MView(Machine, b), p, off))

Read(b, dst) ==
  /\ Idle /\ IsOpen(b)
  /\ Apply(b, Call("Read", b, dst, 0, 0), doRead(MView(Machine, b), dst))

ReadAt(b, dst, off) ==
  /\ Idle /\ IsOpen(b)
  /\ Apply(b, Call("ReadAt", b, dst, off, 0), doReadAt(MView(Machine, b), dst, off))

Seek(b, offset, whence) ==
  /\ Idle /\ IsOpen(b)
  /\ doSeek(MView(Machine, b), offset, whence).v.off <= MaxOff
  /\ Apply(b, Call("Seek", b, <<>>, offset, whence),
           doSeek(MView(Machine, b), offset, whence))

Truncate(b, size) ==
  /\ Idle /\ IsOpen(b)
  /\ Apply(b, Call("Truncate", b, <<>>, size, 0), doTruncate(MView(Machine, b), size))

\* b.grow(n), called on its own as the package's tests do.
GrowSizes == 0..MaxData
Grow(b, n) ==
  /\ Idle /\ IsOpen(b)
  /\ Apply(b, Call("grow", b, <<>>, n, 0), Res(grow(MView(Machine, b), n), 0, ErrNil, <<>>))

\* What one r.Read(tmp) of the source may return for a scratch slice of
\* length tl: the source holds src, then reports io.EOF (or fails when fail).
\* It delivers at least one byte while it has one and tmp has room, and may
\* report its end together with the last bytes.
SourceEnd(fail) == IF fail THEN ErrSource ELSE EOF
SourceReads(src, fail, tl) ==
  IF Len(src) = 0
    THEN {[n |-> 0, err |-> SourceEnd(fail)]}
    ELSE IF tl = 0
      THEN {[n |-> 0, err |-> ErrNil]}
      ELSE {[n |-> k, err |-> ErrNil] : k \in 1..Min(tl, Len(src))}
           \cup {[n |-> Len(src), err |-> SourceEnd(fail)] : k \in {1} \cap 1..(tl - Len(src) + 1)}

\* The largest capacity a ReadFrom of the explored space asks for.
MaxCapRF == MaxOff + MaxSrc + MinRead
\* The iterations of the loop of ReadFrom are counted modulo MaxIter, so that
\* an iteration that leaves the buffer, the pool and the source as they were
\* is still a step of the loop, and a loop that never ends is a cycle.
MaxIter == MaxSrc + 2

\* The call of ReadFrom: total is 0 and the loop is entered.
ReadFromBegin(b, src, fail) ==
  /\ Idle /\ IsOpen(b)
  /\ rf' = [active |-> TRUE, b |-> b, all |-> src, src |-> src, fail |-> fail,
            total |-> 0, iters |-> 0, pre |-> MView(Machine, b)]
  /\ UNCHANGED <<bufs, heap, pool, last, chain>>

ReadFromStart(b, src, fail) ==
  /\ Idle /\ IsOpen(b)
  /\ Admit(Call("ReadFrom", b, src, IF fail THEN 1 ELSE 0, 0))
  /\ rf' = [active |-> TRUE, b |-> b, all |-> src, src |-> src, fail |-> fail,
            total |-> 0, iters |-> 0, pre |-> MView(Machine, b)]
  /\ UNCHANGED <<bufs, heap, pool, last, chain>>

\* The length ReadFrom reslices b.buf to after one read of n bytes, given the
\* length l before the grow.
readFromLen(l, n) == l + n

\* One iteration of the loop of ReadFrom, up to and including its return.
\* The body of one iteration after r.Read(tmp) returned n: the machine after
\* b.off += n, before the reslice.
readFromCopy(m, b, tmp, src, n) ==
  LET \* r.Read(tmp) stores the bytes it delivers in tmp[0:n].
      m3 == IF tmp.blk = NoBlock THEN m
            ELSE [m EXCEPT !.heap[tmp.blk] =
                    CopyInto(@, 0, tmp.len, Slice(src, 0, n))]
      \* copy(b.buf[b.off:], tmp[:n])
      v3 == MView(m3, b)
      v4 == [v3 EXCEPT !.arr = CopyInto(v3.arr, v3.off, v3.len - v3.off,
                                        Slice(ArrOf(m3, tmp.blk), 0, n))]
      m4 == MStore(m3, b, v4)
      \* zeroOutSlice(tmp[:n]); pool.Put(tmp)
      m5 == IF tmp.blk = NoBlock THEN m4
            ELSE [m4 EXCEPT !.heap[tmp.blk] = zeroOutSlice(@, 0, n)]
      m6 == poolPut(m5, tmp)
  IN  \* b.off += n
      [m6 EXCEPT !.bufs[b].off = @ + n]

ReadFromStep ==
  /\ rf.active
  /\ \E b \in {rf.b} : \E v0 \in {MView(Machine, b)} :
       \E g \in {grow(v0, MinRead)} :
         /\ BufCap(g) <= MaxCapRF
         /\ \E m1 \in {MStore(Machine, b, g)} : \E c \in PoolChoices(m1) :
              \E gt \in {poolGet(m1, c)} :
                \E rd \in SourceReads(rf.src, rf.fail, gt.s.len) :
                  \E m7 \in {readFromCopy(gt.m, b, gt.s, rf.src, rd.n)} :
                    LET l == v0.len
                        n == rd.n
                        total == rf.total + n
                        newLen == readFromLen(l, n)
                        call == Call("ReadFrom", b, rf.all, IF rf.fail THEN 1 ELSE 0, 0)
                    IN  IF newLen > BufCap(MView(m7, b))
                          THEN \* b.buf[:l+n] is out of range
                               /\ Install(m7)
                               /\ rf' = NoRF
                               /\ Record(call, rf.pre, Res(NoView, total, Panic, <<>>))
                          ELSE /\ Install([m7 EXCEPT !.bufs[b].len = newLen])
                               /\ IF rd.err = ErrNil
                                    THEN /\ rf' = [rf EXCEPT !.src = Slice(@, n, Len(@)),
                                                             !.total = total,
                                                             !.iters = (@ + 1) % MaxIter]
                                         /\ UNCHANGED <<last, chain>>
                                    ELSE /\ rf' = NoRF
                                         /\ Record(call, rf.pre,
                                                   Res(NoView, total,
                                                       IF rd.err = EOF THEN ErrNil
                                                       ELSE rd.err,
                                                       <<>>))

\* A faulty Close that hands the storage to the pool whatever its origin: C24
\* must notice.
Close_poolAlways(b) ==
  /\ Idle
  /\ bufs[b].st \in {"open", "closed"}
  /\ LET m0 == [Machine EXCEPT !.bufs[b].off = 0, !.bufs[b].st = "closed"]
         k == bufs[b].blk
         m1 == poolPut(IF k = NoBlock THEN m0
                       ELSE [m0 EXCEPT !.heap[k] = zeroOutSlice(@, 0, bufs[b].len)],
                       [blk |-> k, len |-> bufs[b].len])
     IN  /\ Install(m1)
         /\ Record(Call("Close", b, <<>>, 0, 0), MView(Machine, b),
                   Res(NoView, 0, ErrNil, <<>>))
  /\ UNCHANGED rf

Close(b) ==
  /\ Idle
  /\ bufs[b].st \in {"open", "closed"}
  /\ LET m0 == [Machine EXCEPT !.bufs[b].off = 0, !.bufs[b].st = "closed"]
         k == bufs[b].blk
         m1 == IF ~bufs[b].external
                 THEN poolPut(IF k = NoBlock THEN m0
                              ELSE [m0 EXCEPT !.heap[k] = zeroOutSlice(@, 0, bufs[b].len)],
                              [blk |-> k, len |-> bufs[b].len])
                 ELSE [m0 EXCEPT !.bufs[b].blk = NoBlock, !.bufs[b].len = 0]
     IN  /\ Install(m1)
         /\ Record(Call("Close", b, <<>>, 0, 0), MView(Machine, b),
                   Res(NoView, 0, ErrNil, <<>>))
  /\ UNCHANGED rf

\* Close on a nil *Buffer (what a failed New or With returns): the receiver is
\* dereferenced by b.off = 0 before anything else, which panics.
CloseNil(b) ==
  /\ Idle
  /\ bufs[b].st = "none"
  /\ Record(Call("Close", b, <<>>, 0, 0), NoView, Res(NoView, 0, Panic, <<>>))
  /\ UNCHANGED <<bufs, heap, pool, rf>>

\* sync.Pool drops an item (it may do so at any garbage collection).
PoolDrop ==
  /\ Idle
  /\ \E i \in DOMAIN pool : Install([Machine EXCEPT !.pool = RemoveAt(pool, i)])
  /\ UNCHANGED <<rf, last, chain>>

\* ------------------------------------------------------------ specification
NoLast == [call |-> NoCall, pre |-> NoView, n |-> 0, err |-> ErrNil, out |-> <<>>]

\* The Buffer With(data) returns, positioned by Seek(off, SeekStart): every
\* state (cursor, length, capacity, content, spare capacity) a buffer can be
\* in within the bounds.
Positioned(b, data, off) ==
  LET a == MAlloc([bufs |-> [x \in Bufs |-> NoBuf],
                   heap |-> [k \in Blocks |-> <<>>],
                   pool |-> <<>>], data.arr)
      w == withSlice(a.m, b, a.blk, data.len, <<>>, TRUE)
      s == doSeek(MView(w.m, b), off, SeekStart)
  IN  MCollect(MStore(w.m, b, s.v))

InitWith(data, off) ==
  /\ \E m \in {Positioned(1, data, off)} :
       /\ bufs = m.bufs
       /\ heap = m.heap
       /\ pool = m.pool
  /\ rf = NoRF
  /\ last = NoLast
  /\ chain = <<>>

Init == \E data \in Storages, off \in Offsets : InitWith(data, off)

\* The methods called on an open Buffer b, ReadFrom apart.
Methods(b) ==
  \/ \E p \in Data : Write(b, p)
  \/ \E p \in Data, off \in Offsets : WriteAt(b, p, off)
  \/ \E dst \in Dests : Read(b, dst)
  \/ \E dst \in Dests, off \in Offsets : ReadAt(b, dst, off)
  \/ \E offset \in SeekOffsets, whence \in Whences : Seek(b, offset, whence)
  \/ \E size \in Sizes : Truncate(b, size)

Next == Methods(1)

Spec == Init /\ [][Next]_vars

\* ReadFrom on a Buffer over a small storage.
SmallStorages == {s \in Storages : Len(s.arr) <= MaxInit}

InitRF == \E data \in SmallStorages, off \in Offsets : InitWith(data, off)

NextRF ==
  \/ \E src \in Sources, fail \in BOOLEAN : ReadFromStart(1, src, fail)
  \/ ReadFromStep

SpecRF == InitRF /\ [][NextRF]_vars

\* The life of Buffer objects: construction, writes, Close and the pool.
InitLife ==
  /\ bufs = [b \in Bufs |-> NoBuf]
  /\ heap = [k \in Blocks |-> <<>>]
  /\ pool = <<>>
  /\ rf = NoRF
  /\ last = NoLast
  /\ chain = <<>>

\* Write on an open Buffer at any point of its life, while it stays small.
WriteAny(b, p) ==
  /\ Idle /\ IsOpen(b)
  /\ bufs[b].off + Len(p) <= MaxInit + 1
  /\ Perform(b, Call("Write", b, p, 0, 0), doWrite(MView(Machine, b), p))

\* The Buffer objects whose life is followed, and what they are given: what
\* matters is where a byte that is not zero ends up.
LifeBufs == {1}
LifeStorages == {s \in SmallStorages : \A i \in DOMAIN s.arr : s.arr[i] = Filler}

NextLife ==
  \/ \E b \in LifeBufs : ZeroValue(b)
  \/ \E b \in LifeBufs, data \in LifeStorages : With(b, data, <<>>)
  \/ \E b \in LifeBufs : New(b, <<>>)
  \/ \E b \in LifeBufs, p \in Dests : WriteAny(b, p)
  \/ \E b \in LifeBufs : Close(b)
  \/ PoolDrop

SpecLife == InitLife /\ [][NextLife]_vars

\* One construction, with every storage and option.
NextCons ==
  \/ \E data \in Storages, opts \in OptLists : last = NoLast /\ With(1, data, opts)
  \/ \E opts \in OptLists : last = NoLast /\ New(1, opts)

SpecCons == InitLife /\ [][NextCons]_vars

\* Two buffers made by New and closed in any order and any number of times:
\* the first is written, the second filled by ReadFrom, while they are empty.
OwnData == {<<Filler>>}
IsEmpty(b) == bufs[b].len = 0 /\ bufs[b].off = 0
NextOwn ==
  \/ \E b \in Bufs : New(b, <<>>)
  \/ \E p \in OwnData : IsEmpty(1) /\ WriteAny(1, p)
  \/ \E b \in Bufs : Close(b)
  \/ \E src \in OwnData : IsEmpty(2) /\ ReadFromBegin(2, src, FALSE)
  \/ ReadFromStep

SpecOwn == InitLife /\ [][NextOwn]_vars

\* A buffer made by New, written and closed any number of times, next to a
\* second one made by New that takes one byte by Write and then calls ReadFrom;
\* the behaviour ends when ReadFrom returns.
NoReadFromYet == last.call.op # "ReadFrom"
NextShare ==
  \/ \E b \in Bufs : NoReadFromYet /\ New(b, <<>>)
  \/ \E p \in OwnData : NoReadFromYet /\ WriteAny(2, p)
  \/ NoReadFromYet /\ Close(2)
  \/ \E p \in OwnData : IsEmpty(1) /\ WriteAny(1, p)
  \/ \E src \in OwnData :
       bufs[1].len = 1 /\ bufs[1].off = 1 /\ ReadFromBegin(1, src, FALSE)
  \/ ReadFromStep

SpecShare == InitLife /\ [][NextShare]_vars

\* Every method, ReadFrom included, on a buffer in any state.
NextAll ==
  \/ Next
  \/ NextRF

SpecAll == Init /\ [][NextAll]_vars

\* Seek with every whence, the three of package io and two others.
OtherWhences == {SeekStart - 1, SeekEnd + 1}
NextSeek ==
  \E offset \in SeekOffsets, whence \in Whences \cup OtherWhences :
    Seek(1, offset, whence)

SpecSeek == Init /\ [][NextSeek]_vars

\* grow on a buffer in any state.
NextGrow == \E n \in GrowSizes : Grow(1, n)

SpecGrow == Init /\ [][NextGrow]_vars

\* One construction, and Close on what it returned when it returned nil.
NextNil ==
  \/ NextCons
  \/ CloseNil(1)

SpecNil == InitLife /\ [][NextNil]_vars

\* ReadFrom in the life of a Buffer: whatever Close left in the pool is what
\* ReadFrom gets its scratch slice from.  The loop of a call that has begun
\* keeps running.
NextLive ==
  \/ ZeroValue(1)
  \/ New(1, <<>>)
  \/ Close(1)
  \/ \E src \in Dests : bufs[1].len = 0 /\ ReadFromBegin(1, src, FALSE)
  \/ ReadFromStep

SpecLive == InitLife /\ [][NextLive]_vars /\ WF_vars(ReadFromStep)

\* A Buffer that starts empty and takes up to MaxSeq calls of Write, WriteAt,
\* Seek and Truncate, with arguments around the sizes it can reach.
FileData == Dests
FileOffsets == 0..MaxInit
FileSeeks == (0 - 1)..MaxInit
FileSizes == (0 - 1)..(MaxInit + 1)

NextFile ==
  \/ ZeroValue(1)
  \/ \E p \in FileData : Write(1, p)
  \/ \E p \in FileData, off \in FileOffsets : WriteAt(1, p, off)
  \/ \E offset \in FileSeeks, whence \in Whences : Seek(1, offset, whence)
  \/ \E size \in FileSizes : Truncate(1, size)

SpecFile == InitLife /\ [][NextFile]_vars

TypeOK ==
  /\ \A b \in Bufs : bufs[b].len <= Len(ArrOf(Machine, bufs[b].blk))
  /\ \A b \in Bufs : bufs[b].off >= 0

\* -------------------------------------------------------------- properties
\* The buffer before the last call and as it is now.
Pre == last.pre
Post == IF last.call.b \in Bufs THEN MView(Machine, last.call.b) ELSE NoView
Done(op) == Idle /\ last.call.op = op
ByteAt(v, i) == v.arr[i + 1]

\* C1: Write(b), then Seek(-len(b), Current), then Read into a destination of
\* length len(b) returns exactly the bytes of b, whatever the state before.
C1_WriteSeekReadRoundTrip ==
  (Len(chain) = 3 /\ chain[1].op = "Write")
    => /\ last.err # Panic
       /\ last.n = Len(chain[1].p)
       /\ last.out = chain[1].p

C1_Witness ==
  /\ Len(chain) = 3
  /\ chain[1].op = "Write"
  /\ Len(chain[1].p) = MaxData
  /\ \E i \in DOMAIN chain[1].p : chain[1].p[i] # 0
  /\ last.out = chain[1].p

\* C2: Write(p) with the cursor at c returns (len(p), nil), leaves the cursor
\* at c + len(p), the bytes at [c, c + len(p)) equal to p, every other byte of
\* the previous content unchanged and Len() = max(previous Len(), c + len(p)).
C2_WriteEffect ==
  Done("Write") =>
    LET p == last.call.p
        c == Pre.off
    IN  /\ last.n = Len(p)
        /\ last.err = ErrNil
        /\ Post.off = c + Len(p)
        /\ Post.len = Max(Pre.len, c + Len(p))
        /\ Post.len <= BufCap(Post)
        /\ \A i \in 0..(Len(p) - 1) : ByteAt(Post, c + i) = p[i + 1]
        /\ \A i \in 0..(Pre.len - 1) :
             (i < c \/ i >= c + Len(p)) => ByteAt(Post, i) = ByteAt(Pre, i)

\* A write that starts inside the content, runs past its end and reallocates.
C2_Witness ==
  /\ Done("Write")
  /\ Len(last.call.p) = MaxData
  /\ Pre.off > 0
  /\ Pre.off < Pre.len
  /\ Post.len > Pre.len
  /\ BufCap(Post) > BufCap(Pre)
  /\ ByteAt(Pre, 0) # 0
  /\ ByteAt(Post, 0) = ByteAt(Pre, 0)

\* C3: for every offset o > Len(), WriteAt(p, o) leaves as content the previous
\* content, then o - (previous Len()) zero bytes, then p.
C3_WriteAtGapIsZero ==
  (Done("WriteAt") /\ last.call.arg > Pre.len)
    => Content(Post) = Content(Pre) \o Zeros(last.call.arg - Pre.len) \o last.call.p

\* C4: WriteAt(p, off) with off >= 0 returns (len(p), nil) and leaves Offset()
\* as it was.
C4_WriteAtKeepsOffset ==
  Done("WriteAt") =>
    /\ last.n = Len(last.call.p)
    /\ last.err = ErrNil
    /\ Post.off = Pre.off

C4_Witness ==
  /\ Done("WriteAt")
  /\ Len(last.call.p) > 0
  /\ last.call.arg # Pre.off
  /\ Post.off = Pre.off
  /\ Post.off > 0

\* C5: Read(dest) with the cursor c < Len() copies min(len(dest), Len() - c)
\* bytes, the content at [c, c + count), into dest, returns that count, advances
\* the cursor by it and leaves the content, Len() and Cap() unchanged.
C5_ReadCopies ==
  (Done("Read") /\ Pre.off < Pre.len) =>
    LET count == Min(Len(last.call.p), Pre.len - Pre.off)
    IN  /\ last.err # Panic
        /\ last.n = count
        /\ Len(last.out) = Len(last.call.p)
        /\ \A i \in 0..(count - 1) : last.out[i + 1] = ByteAt(Pre, Pre.off + i)
        /\ \A i \in count..(Len(last.call.p) - 1) : last.out[i + 1] = last.call.p[i + 1]
        /\ Post.off = Pre.off + count
        /\ Post.arr = Pre.arr
        /\ Post.len = Pre.len

\* A read that is cut short by the end of the content.
C5_Witness ==
  /\ Done("Read")
  /\ Pre.off > 0
  /\ Pre.off < Pre.len
  /\ last.n > 0
  /\ last.n < Len(last.call.p)
  /\ last.out[1] = 0

\* C6: Read with a non-empty destination and the cursor at or beyond Len()
\* returns (0, EOF), writes nothing to the destination and leaves the cursor.
C6_ReadAtEndIsEOF ==
  (Done("Read") /\ Len(last.call.p) > 0 /\ Pre.off >= Pre.len) =>
    /\ last.n = 0
    /\ last.err = EOF
    /\ last.out = last.call.p
    /\ Post.off = Pre.off
    /\ Post.arr = Pre.arr
    /\ Post.len = Pre.len

C6_Witness ==
  /\ Done("Read")
  /\ Len(last.call.p) > 0
  /\ Pre.off > Pre.len
  /\ Pre.len > 0
  /\ last.err = EOF

\* C7: Truncate(size) with size >= Len() leaves Len() = size, the previous
\* content as a prefix, zero bytes in [previous Len(), size) and the cursor
\* unchanged, for every cursor position.
C7_TruncateExtends ==
  (Done("Truncate") /\ last.call.arg >= Pre.len) =>
    /\ last.err = ErrNil
    /\ Post.len = last.call.arg
    /\ Post.off = Pre.off
    /\ \A i \in 0..(Pre.len - 1) : ByteAt(Post, i) = ByteAt(Pre, i)
    /\ \A i \in Pre.len..(Post.len - 1) : ByteAt(Post, i) = 0

\* C8: Truncate(size) with 0 <= size < Len() leaves Len() = size, the first
\* size bytes unchanged, Cap() unchanged and the cursor unchanged, also when
\* the cursor is now beyond Len().
C8_TruncateShrinks ==
  (Done("Truncate") /\ 0 <= last.call.arg /\ last.call.arg < Pre.len) =>
    /\ last.err = ErrNil
    /\ Post.len = last.call.arg
    /\ \A i \in 0..(last.call.arg - 1) : ByteAt(Post, i) = ByteAt(Pre, i)
    /\ BufCap(Post) = BufCap(Pre)
    /\ Post.off = Pre.off

C8_Witness ==
  /\ Done("Truncate")
  /\ last.call.arg > 0
  /\ last.call.arg < Pre.len
  /\ Pre.off <= Pre.len
  /\ Post.off > Post.len
  /\ ByteAt(Pre, 0) # 0

C10_ReadFromStores ==
  (Done("ReadFrom") /\ last.call.arg = 0) =>
    LET s == last.call.p
        c0 == Pre.off
    IN  /\ last.n = Len(s)
        /\ last.err = ErrNil
        /\ Post.off = c0 + Len(s)
        /\ Post.len = Post.off
        /\ Post.len <= BufCap(Post)
        /\ \A i \in 0..(Len(s) - 1) : ByteAt(Post, c0 + i) = s[i + 1]

\* The cursor Seek(offset, whence) aims at, from the buffer before the call.
SeekTarget ==
  CASE last.call.whence = SeekStart -> last.call.arg
    [] last.call.whence = SeekCurrent -> Pre.off + last.call.arg
    [] last.call.whence = SeekEnd -> Pre.len + last.call.arg

\* C11: a successful Seek(offset, whence) sets the cursor to offset for Start,
\* to the previous cursor + offset for Current and to Len() + offset for End,
\* and returns the new cursor.
C11_SeekSetsCursor ==
  (Done("Seek") /\ last.err = ErrNil) =>
    /\ Post.off = SeekTarget
    /\ last.n = Post.off

\* A seek from the end, with content, spare capacity and a cursor elsewhere.
C11_Witness ==
  /\ Done("Seek")
  /\ last.err = ErrNil
  /\ last.call.whence = SeekEnd
  /\ last.call.arg < 0
  /\ Pre.len < BufCap(Pre)
  /\ Pre.off # Pre.len
  /\ Post.off = Pre.len + last.call.arg
  /\ Post.off > 0

\* C12: a Seek whose resulting cursor would be negative, in any of the three
\* modes, fails with os.ErrInvalid, returns position 0 and leaves the cursor,
\* the content and Len() unchanged.
C12_SeekNegativeFails ==
  (Done("Seek") /\ SeekTarget < 0) =>
    /\ last.err = ErrInvalid
    /\ last.n = 0
    /\ Post.off = Pre.off
    /\ Post.arr = Pre.arr
    /\ Post.len = Pre.len

C12_Witness ==
  /\ Done("Seek")
  /\ last.call.whence = SeekEnd
  /\ SeekTarget < 0
  /\ Pre.len > 0
  /\ Pre.off > 0
  /\ last.err = ErrInvalid
  /\ Post.off = Pre.off

\* C13: a Seek to a position beyond Len() succeeds, sets the cursor there and
\* changes neither Len(), Cap() nor the content.
C13_SeekBeyondLenKeepsStorage ==
  (Done("Seek") /\ SeekTarget > Pre.len) =>
    /\ last.err = ErrNil
    /\ Post.off = SeekTarget
    /\ Post.len = Pre.len
    /\ BufCap(Post) = BufCap(Pre)
    /\ Post.arr = Pre.arr

\* A seek beyond the capacity of a buffer that has content.
C13_Witness ==
  /\ Done("Seek")
  /\ Pre.len > 0
  /\ Post.off > BufCap(Pre)
  /\ Post.len = Pre.len
  /\ BufCap(Post) = BufCap(Pre)

C15_ReadAtLikeRead ==
  (Done("ReadAt") /\ 0 <= last.call.arg /\ last.call.arg < Pre.len) =>
    LET off == last.call.arg
        r == doRead([Pre EXCEPT !.off = off], last.call.p)
        count == Min(Len(last.call.p), Pre.len - off)
    IN  /\ last.n = r.n
        /\ last.out = r.out
        /\ last.n = count
        /\ \A i \in 0..(count - 1) : last.out[i + 1] = ByteAt(Pre, off + i)
        /\ Post.off = Pre.off
        /\ Post.arr = Pre.arr
        /\ Post.len = Pre.len

\* A ReadAt that ends with an error, away from the cursor.
C15_Witness ==
  /\ Done("ReadAt")
  /\ last.call.arg > 0
  /\ last.call.arg < Pre.len
  /\ Pre.off > Pre.len
  /\ last.n > 0
  /\ last.err # ErrNil
  /\ Post.off = Pre.off

\* C16: ReadAt returns a non-nil error whenever it returns n < len(dest); a
\* ReadAt that starts inside the content with a destination larger than what
\* remains returns the remaining bytes together with io.EOF.
C16_ReadAtShortIsError ==
  Done("ReadAt") =>
    /\ last.n < Len(last.call.p) => last.err # ErrNil
    /\ (last.call.arg < Pre.len /\ Len(last.call.p) > Pre.len - last.call.arg) =>
         /\ last.n = Pre.len - last.call.arg
         /\ last.err = EOF
         /\ \A i \in 0..(last.n - 1) :
              last.out[i + 1] = ByteAt(Pre, last.call.arg + i)

C16_Witness ==
  /\ Done("ReadAt")
  /\ last.call.arg < Pre.len
  /\ last.n > 0
  /\ last.n < Len(last.call.p)
  /\ last.err = EOF
  /\ last.out[1] = 0

\* C17: Read with an empty destination never returns io.EOF, whatever the
\* cursor (before, at or beyond Len()); it returns (0, nil).
C17_ReadEmptyDestIsNil ==
  (Done("Read") /\ last.call.p = <<>>) =>
    /\ last.n = 0
    /\ last.err = ErrNil

C19_ReadWithBytesIsNil ==
  (Done("Read") /\ last.n > 0) => last.err = ErrNil

\* C20: ReadAt with a non-empty destination at an offset beyond Len() returns
\* count 0 and io.EOF, as os.File does.
C20_ReadAtBeyondLenIsEOF ==
  (Done("ReadAt") /\ Len(last.call.p) > 0 /\ last.call.arg > Pre.len) =>
    /\ last.n = 0
    /\ last.err = EOF

\* C21: Truncate(size) with size < 0 fails with os.ErrInvalid and leaves the
\* content, Len(), Cap() and the cursor unchanged.
C21_TruncateNegativeFails ==
  (Done("Truncate") /\ last.call.arg < 0) =>
    /\ last.err = ErrInvalid
    /\ Post.arr = Pre.arr
    /\ Post.len = Pre.len
    /\ Post.off = Pre.off

C21_Witness ==
  /\ Done("Truncate")
  /\ last.call.arg < 0
  /\ last.err = ErrInvalid
  /\ Pre.len > 0
  /\ Pre.off > 0
  /\ ByteAt(Post, 0) # 0

\* C22: Truncate(n) with n equal to Len() changes neither the content, Len(),
\* Cap() nor the cursor.
C22_TruncateToLenIsNoOp ==
  (Done("Truncate") /\ last.call.arg = Pre.len) =>
    /\ last.err = ErrNil
    /\ Post.arr = Pre.arr
    /\ Post.len = Pre.len
    /\ Post.off = Pre.off

\* The cursor beyond the length, spare capacity behind it.
C22_Witness ==
  /\ Done("Truncate")
  /\ last.call.arg = Pre.len
  /\ Pre.len > 0
  /\ Pre.off > Pre.len
  /\ BufCap(Pre) >= Pre.off
  /\ Post.len = Pre.len

\* C26: when the source of ReadFrom fails with an error other than io.EOF,
\* ReadFrom returns that error with the number of bytes the source delivered
\* (those of the failing read included) and those bytes are in the buffer, at
\* the cursor the call started from; io.EOF is never returned.
C26_ReadFromSourceError ==
  Done("ReadFrom") =>
    LET s == last.call.p
        c0 == Pre.off
    IN  /\ last.err # EOF
        /\ last.call.arg = 1 =>
             /\ last.err = ErrSource
             /\ last.n = Len(s)
             /\ Post.len >= c0 + Len(s)
             /\ Post.len <= BufCap(Post)
             /\ \A i \in 0..(Len(s) - 1) : ByteAt(Post, c0 + i) = s[i + 1]
\* The items of a pool as slices: length and backing array.
PoolView(h, q) ==
  [i \in DOMAIN q |->
     [len |-> q[i].len, arr |-> IF q[i].blk = NoBlock THEN <<>> ELSE h[q[i].blk]]]

\* C23: Close is idempotent: it returns nil on any buffer, and a Close of an
\* already closed buffer changes neither the buffer nor the pool.
C23_CloseIsIdempotent ==
  [][\A b \in Bufs :
       Close(b) =>
         /\ last'.err = ErrNil
         /\ bufs[b].st = "closed" =>
              /\ bufs' = bufs
              /\ PoolView(heap', pool') = PoolView(heap, pool)]_vars

\* What Close(b) does to the buffer and to the pool.
CloseEffect(b) ==
  LET n == bufs[b].len
      old == ArrOf(Machine, bufs[b].blk)
      new == IF bufs'[b].blk = NoBlock THEN <<>> ELSE heap'[bufs'[b].blk]
  IN  /\ bufs'[b].off = 0
      /\ bufs[b].external =>
           /\ bufs'[b].blk = NoBlock
           /\ bufs'[b].len = 0
           /\ PoolView(heap', pool') = PoolView(heap, pool)
      /\ ~bufs[b].external =>
           /\ bufs'[b].len = n
           /\ new = zeroOutSlice(old, 0, n)
           /\ \A i \in 1..n : new[i] = 0
           /\ IF Len(pool) < MaxPool
                THEN /\ Len(pool') = Len(pool) + 1
                     /\ PoolView(heap', pool')[Len(pool')] = [len |-> n, arr |-> new]
                ELSE Len(pool') = Len(pool)

\* C24: Close resets the cursor to 0; storage supplied through With is never
\* put in the pool and the buffer drops its reference (Len() = 0 afterwards);
\* storage of a buffer made by New is zeroed over its length and handed to the
\* pool.
C24_CloseDisposesByOrigin ==
  [][\A b \in Bufs : Close(b) => CloseEffect(b)]_vars

\* A written buffer made by New, closed, its slice now in the pool; and one
\* made by With, closed.
C24_Witness ==
  /\ Done("Close")
  /\ Pre.len > 0
  /\ \E i \in 0..(Pre.len - 1) : ByteAt(Pre, i) # 0
  /\ Pre.off > 0
  /\ ~bufs[last.call.b].external
  /\ bufs[last.call.b].off = 0
  /\ \E i \in DOMAIN pool :
       /\ pool[i].blk = bufs[last.call.b].blk
       /\ pool[i].len = Pre.len
       /\ \A j \in 1..Pre.len : heap[pool[i].blk][j] = 0

\* C25: every block in the pool reads as zero over its whole capacity, so no
\* byte a closed buffer stored can be seen through a buffer New returns later.
C25_PoolBlocksAreZero ==
  \A i \in DOMAIN pool :
    \A j \in DOMAIN ArrOf(Machine, pool[i].blk) : ArrOf(Machine, pool[i].blk)[j] = 0
C29_BoundsAndNoPanic ==
  (/\ Idle
   /\ last.call.op \in {"Write", "WriteAt", "Read", "ReadAt", "ReadFrom",
                        "Seek", "Truncate"}) =>
    /\ last.err # Panic
    /\ 0 <= BufLen(Post)
    /\ BufLen(Post) <= BufCap(Post)
    /\ BufOffset(Post) >= 0

\* The reference random-access file: a position and the bytes of the file.
\* A write of one byte or more at offset at makes the size the larger of the
\* size and at + len(p), the bytes of the gap being zero; a write of no byte
\* changes nothing; Truncate(n) makes the size n, new bytes being zero.
FileInit == [pos |-> 0, data |-> <<>>]

FileWrite(data, at, p) ==
  IF p = <<>> THEN data
  ELSE [i \in 1..Max(Len(data), at + Len(p)) |->
          IF i > at /\ i <= at + Len(p) THEN p[i - at]
          ELSE IF i <= Len(data) THEN data[i] ELSE 0]

FileSeek(f, offset, whence) ==
  LET base == IF whence = SeekStart THEN 0
              ELSE IF whence = SeekCurrent THEN f.pos ELSE Len(f.data)
  IN  IF base + offset < 0 THEN f ELSE [f EXCEPT !.pos = base + offset]

FileTruncate(f, n) ==
  IF n < 0 THEN f
  ELSE [f EXCEPT !.data = [i \in 1..n |-> IF i <= Len(f.data) THEN f.data[i] ELSE 0]]

FileApply(f, c) ==
  IF c.op = "Write"
    THEN [pos |-> f.pos + Len(c.p), data |-> FileWrite(f.data, f.pos, c.p)]
  ELSE IF c.op = "WriteAt" THEN [f EXCEPT !.data = FileWrite(@, c.arg, c.p)]
  ELSE IF c.op = "Seek" THEN FileSeek(f, c.arg, c.whence)
  ELSE IF c.op = "Truncate" THEN FileTruncate(f, c.arg)
  ELSE FileInit

RECURSIVE FileAfter(_)
FileAfter(c) ==
  IF c = <<>> THEN FileInit
  ELSE FileApply(FileAfter(SubSeq(c, 1, Len(c) - 1)), c[Len(c)])

\* C30: after every call of a sequence of Write, WriteAt, Seek and Truncate
\* made on a Buffer that starts empty, Len(), Offset() and the content equal
\* the size, the position and the content of the reference file that took the
\* same calls.
C30_LockstepWithFile ==
  (chain # <<>> /\ chain[1].op = "ZeroValue") =>
    LET f == FileAfter(chain)
        v == MView(Machine, chain[1].b)
    IN  /\ BufLen(v) = Len(f.data)
        /\ BufOffset(v) = f.pos
        /\ Content(v) = f.data

\* C31: Close on a nil buffer reference does nothing and returns nil.
C31_CloseNilIsNoOp ==
  (Done("Close") /\ bufs[last.call.b].st = "none") => last.err = ErrNil

WrittenBy(c, off) ==
  IF c.op = "Write" THEN off..(off + Len(c.p) - 1)
  ELSE IF c.op = "WriteAt" THEN c.arg..(c.arg + Len(c.p) - 1)
  ELSE {}

\* C33: on a Buffer that starts empty, after any sequence of Write, WriteAt,
\* Seek and Truncate, a call that makes Len() larger within the same storage
\* shows zero at every offset it brings back that it does not write itself,
\* never a byte an earlier Truncate discarded.
C33_NoStaleBytes ==
  (/\ chain # <<>>
   /\ chain[1].op = "ZeroValue"
   /\ Len(chain) >= 2
   /\ Post.len > Pre.len
   /\ BufCap(Post) = BufCap(Pre)) =>
    \A i \in Pre.len..(Post.len - 1) :
      i \notin WrittenBy(last.call, Pre.off) => ByteAt(Post, i) = 0

\* Two bytes written, one or both discarded by Truncate, and a third call that
\* brings a discarded offset back without writing it.
C33_Witness ==
  /\ Len(chain) = 4
  /\ chain[1].op = "ZeroValue"
  /\ chain[2].op = "Write"
  /\ chain[2].p = <<Filler, Filler>>
  /\ chain[3].op = "Truncate"
  /\ chain[3].arg \in {0, 1}
  /\ Post.len > Pre.len
  /\ BufCap(Post) = BufCap(Pre)
  /\ \E i \in Pre.len..(Post.len - 1) :
       i \notin WrittenBy(last.call, Pre.off) /\ i < 2 /\ ByteAt(Post, i) = 0

\* C34: storage is owned by one party at a time: two open buffers never share
\* a block, and no open buffer refers to a block that is in the pool.
C34_ExclusiveOwnership ==
  /\ \A a, b \in Bufs :
       (a # b /\ IsOpen(a) /\ IsOpen(b) /\ bufs[a].blk # NoBlock) =>
         bufs[a].blk # bufs[b].blk
  /\ \A b \in Bufs : \A i \in DOMAIN pool :
       (IsOpen(b) /\ bufs[b].blk # NoBlock) => pool[i].blk # bufs[b].blk

\* C35: every slice the pool holds has length MinRead, whatever buffers were
\* closed before, so the scratch slice of ReadFrom always has MinRead bytes.
C35_PoolItemsHaveMinRead ==
  \A i \in DOMAIN pool : pool[i].len = MinRead

\* C36: a Write or WriteAt of no byte leaves Len(), Cap() and the content as
\* they were, wherever the cursor or the target offset is.
C36_EmptyWriteChangesNothing ==
  ((Done("Write") \/ Done("WriteAt")) /\ last.call.p = <<>>) =>
    /\ Post.len = Pre.len
    /\ BufCap(Post) = BufCap(Pre)
    /\ Content(Post) = Content(Pre)

\* C37: after ReadFrom returns, every byte the content held before the call
\* below the cursor the call started at is still there, unchanged.
C37_ReadFromKeepsContent ==
  (Done("ReadFrom") /\ last.err # Panic) =>
    \A i \in 0..(Min(Pre.off, Pre.len) - 1) :
      /\ i < Post.len
      /\ ByteAt(Post, i) = ByteAt(Pre, i)

\* C38: Cap() never decreases across Write, WriteAt, ReadFrom, Truncate, Read,
\* ReadAt and Seek; when the storage is replaced the new capacity is larger
\* than the old one, and a shrinking Truncate keeps the capacity.
C38_CapNeverDecreases ==
  (/\ Idle
   /\ last.call.op \in {"Write", "WriteAt", "ReadFrom", "Truncate", "Read",
                        "ReadAt", "Seek"}) =>
    /\ BufCap(Post) >= BufCap(Pre)
    /\ (last.call.op = "Write" /\ Pre.off + Len(last.call.p) > BufCap(Pre)) =>
         BufCap(Post) > BufCap(Pre)
    /\ (last.call.op = "WriteAt" /\ last.call.arg + Len(last.call.p) > BufCap(Pre)) =>
         BufCap(Post) > BufCap(Pre)
    /\ (last.call.op = "Truncate" /\ last.call.arg >= 0 /\ last.call.arg <= Pre.len) =>
         BufCap(Post) = BufCap(Pre)

\* A ReadFrom that returns after replacing the storage of a buffer that had
\* content and spare capacity.
C38_Witness ==
  /\ Done("ReadFrom")
  /\ last.err = ErrNil
  /\ Pre.len > 0
  /\ BufCap(Pre) > Pre.len
  /\ BufCap(Post) > BufCap(Pre)

\* C39: Seek with a whence that is none of Start, Current and End does not
\* fail: whatever the offset, it sets the cursor to 0 and returns (0, nil),
\* and leaves the content alone.
C39_SeekUnknownWhence ==
  (Done("Seek") /\ last.call.whence \notin Whences) =>
    /\ last.err = ErrNil
    /\ last.n = 0
    /\ Post.off = 0
    /\ Post.len = Pre.len
    /\ Post.arr = Pre.arr

\* Seek with an unknown whence and a negative offset on a buffer whose cursor
\* is not at 0.
C39_Witness ==
  /\ Done("Seek")
  /\ last.call.whence \notin Whences
  /\ last.call.arg < 0
  /\ Pre.off > 0
  /\ Post.off = 0

\* C27: ReadFrom terminates: whatever the state of the buffer and of the pool,
\* a call on a source that holds finitely many bytes and then reports io.EOF
\* eventually returns.
C27_ReadFromTerminates == rf.active ~> ~rf.active
====
